---- MODULE Spec2Model ----
(***************************************************************************)
(* A model of the tequila-tutorials notebooks.                             *)
(*                                                                         *)
(* Part 1: the tequilaTensor class of the QTensor notebook (its final      *)
(* definition, the cell with __mul__ and __rmul__): the constructor,       *)
(* access / __getitem__, __add__, __mul__, __rmul__ and _prod.  Python     *)
(* lists are sequences (Python position n is TLA+ position n + 1), an      *)
(* object is a record whose fields are its attributes, and a call ends in  *)
(* an outcome: a returned value or a raised exception.                     *)
(*                                                                         *)
(* Part 2: the CRz_k decomposition of the CircuitCompiler notebook: the    *)
(* 2^k exponential-Pauli factors, emitted in Gray code order, and their    *)
(* circuit of CNOTs and rotations (SpecCRz).                               *)
(*                                                                         *)
(* Part 3: tq.compile as the notebook shows it, pass by pass, for qiskit   *)
(* and cirq (SpecCompile), and the full generator of a controlled gate     *)
(* (SpecGen).                                                              *)
(*                                                                         *)
(* Part 4: prepare_cov_dict of the OptimizedMeasurements notebook          *)
(* (SpecCov).                                                              *)
(*                                                                         *)
(* Part 5: a fresh kernel running the code cells of each notebook top to   *)
(* bottom (SpecKernel), and the tensor class with the identity of its      *)
(* list objects (SpecHeap).                                                *)
(***************************************************************************)
EXTENDS Integers, Sequences, FiniteSets, TLC

VARIABLES
    A,        \* the tequilaTensor the methods are called on (self)
    call,     \* the last call made on A: its name and its argument
    res,      \* the outcome of that call: a returned value or a raised exception
    reads,    \* the attributes of the other operand that call read (or tried to)
    k,        \* CRz_k: the number of control qubits (qubits 0..k-1; the target is k)
    a,        \* CRz_k: the rotation angle, in units that a / 2^k is a whole number of
    ones,     \* CRz_k: the controls that are |1> in the computational-basis input
    terms,    \* CRz_k: the exponential-Pauli factors emitted so far, in order
    acc,      \* CRz_k: the Rz angle the emitted factors apply to the target so far
    circuit,  \* CRz_k: the compiled gates so far (CNOTs and Rz), meeting CNOTs cancelled
    gate,     \* compile: the gate handed to tq.compile
    backend,  \* compile: the backend it is compiled for
    cu1,      \* compile: whether the backend's supported set holds the controlled phase
    stage,    \* compile: the compiler pass that runs next
    compiled, \* compile: the circuit, as the passes so far left it
    todo,     \* compile: the gates the controlled-rotation pass has not reached yet
    sub,      \* compile: the Gray code circuit of the gate that pass is rewriting
    G,        \* generator: U.generator, the coefficient of each Pauli of the target
    ncontrol, \* generator: the number of controls of U (qubits 0..ncontrol-1)
    Gc,       \* generator: the full generator so far, with the controls it includes
    binary_terms, \* prepare_cov_dict: H.binary_terms, the binary vectors of the terms of H
    cov_dict, \* prepare_cov_dict: the dictionary, key -> covariance
    outer,    \* prepare_cov_dict: idx, the position of term1 (outer loop)
    inner,    \* prepare_cov_dict: the position of term2 within terms[idx:] (inner loop)
    returned, \* prepare_cov_dict: whether the function has returned cov_dict
    notebook, \* kernel: the notebook that is run
    executed, \* kernel: the number of its statements executed so far
    namespace,\* kernel: the names bound in the kernel's global namespace
    bodies,   \* kernel: for each function or class defined, the global names its body reads
    failure,  \* kernel: the NameError that stopped the run, if any
    heap,     \* objects: the list objects, by identity
    refs,     \* objects: the operands A and B and the result C, their attributes as identities
    before    \* objects: the list objects as they were when C was returned

tensorVars == <<A, call, res, reads>>
crzVars == <<k, a, ones, terms, acc, circuit>>
compileVars == <<gate, backend, cu1, stage, compiled, todo, sub>>
genVars == <<G, ncontrol, Gc>>
covVars == <<binary_terms, cov_dict, outer, inner, returned>>
kernelVars == <<notebook, executed, namespace, bodies, failure>>
heapVars == <<heap, refs, before>>
vars == <<A, call, res, reads, k, a, ones, terms, acc, circuit,
          gate, backend, cu1, stage, compiled, todo, sub, G, ncontrol, Gc,
          binary_terms, cov_dict, outer, inner, returned,
          notebook, executed, namespace, bodies, failure,
          heap, refs, before>>

\* What the actions of one part of the model leave alone.
notTensor == <<crzVars, compileVars, genVars, covVars, kernelVars, heapVars>>
notCRz == <<tensorVars, compileVars, genVars, covVars, kernelVars, heapVars>>
notCompile == <<tensorVars, crzVars, genVars, covVars, kernelVars, heapVars>>
notGen == <<tensorVars, crzVars, compileVars, covVars, kernelVars, heapVars>>
notCov == <<tensorVars, crzVars, compileVars, genVars, kernelVars, heapVars>>
notKernel == <<tensorVars, crzVars, compileVars, genVars, covVars, heapVars>>
notHeap == <<tensorVars, crzVars, compileVars, genVars, covVars, kernelVars>>

(***************************************************************************)
(* Bounds of the model.                                                    *)
(***************************************************************************)
\* The longest shape list (the largest number of tensor axes).
MaxRank == 2
\* The largest extent of one axis.
MaxDim == 2
\* The longest objective_list.
MaxLen == 4
\* The elements of an objective_list are the numbers 1..MaxVal.
MaxVal == 2
\* The scalars a tensor is multiplied with are the numbers 1..MaxScalar.
MaxScalar == 2
\* The largest number of control qubits of CRz_k.
MaxControls == 3
\* The angle a of CRz_k(a) is a non-zero multiple n * 2^MaxControls, |n| <= MaxAngle.
MaxAngle == 2

(***************************************************************************)
(* Python values.                                                          *)
(***************************************************************************)
\* A call that returned v.
Return(v) == [ret |-> "return", value |-> v]

\* A call that raised an exception of class exc.
Raise(exc) == [ret |-> "raise", exc |-> exc]

\* Python's lst[n] for an int n: a negative n counts from the end, and a
\* position outside the list raises IndexError.
PyIndex(lst, n) ==
    LET m == IF n < 0 THEN n + Len(lst) ELSE n
    IN  IF m < 0 \/ m >= Len(lst) THEN Raise("IndexError") ELSE Return(lst[m + 1])

\* hasattr(obj, name): the attributes of an object are the fields of its record.
HasAttr(obj, name) == name \in DOMAIN obj

\* tequilaTensor.__init__: stores both arguments as they are, unchecked.
tequilaTensor(objective_list, shape) ==
    [kind |-> "tequilaTensor", shape |-> shape, objective_list |-> objective_list]

(***************************************************************************)
(* tequilaTensor._prod and tequilaTensor.access.                           *)
(***************************************************************************)
RECURSIVE prodLoop(_, _, _)
\* The loop of _prod from Python position i on, with prod so far.
prodLoop(any_list, i, prod) ==
    IF i >= Len(any_list) THEN prod
    ELSE prodLoop(any_list, i + 1, prod * any_list[i + 1])

\* A slip in _prod: the range starts at integer instead of integer + 1.
prodFromInteger(any_list, integer) == prodLoop(any_list, integer, 1)

\* _prod(any_list, integer): the product of any_list[integer+1:].
_prod(any_list, integer) == prodLoop(any_list, integer + 1, 1)

RECURSIVE listIndexLoop(_, _, _, _)
\* The second loop of access from Python position i on: list_index so far.
listIndexLoop(shape, idx, i, list_index) ==
    IF i >= Len(idx) THEN list_index
    ELSE IF i # Len(idx) - 1
         THEN listIndexLoop(shape, idx, i + 1, list_index + idx[i + 1] * _prod(shape, i))
         ELSE listIndexLoop(shape, idx, i + 1, list_index + (idx[i + 1] + 1))

\* access(self, idx); __getitem__(self, item) is access(item).
access(self, idx) ==
    IF Len(idx) # Len(self.shape) THEN Raise("Exception")
    ELSE IF \E j \in 1..Len(idx) : idx[j] >= self.shape[j] THEN Raise("ValueError")
    ELSE PyIndex(self.objective_list, listIndexLoop(self.shape, idx, 0, 0) - 1)

__getitem__(self, item) == access(self, item)

(***************************************************************************)
(* tequilaTensor.__add__, __mul__ and __rmul__.  Each returns the outcome  *)
(* of the call together with the attributes of other it read on the way.   *)
(***************************************************************************)
\* An outcome, with the attributes of the other operand the call read or tried to read.
Reading(outcome, attrs) == [out |-> outcome, reads |-> attrs]

\* self.shape != other.shape.  shape is a list in a tequilaTensor and a tuple in
\* a QTensor (a numpy.ndarray), and Python never finds a list equal to a tuple.
ShapesDiffer(self, other) ==
    IF other.kind = "QTensor" THEN TRUE ELSE self.shape # other.shape

RECURSIVE addLoop(_, _, _, _)
\* The loop of __add__ from Python position i on, and the return after it.
addLoop(self, other, i, added_list) ==
    IF i >= Len(self.objective_list)
    THEN Return(tequilaTensor(added_list, self.shape))
    ELSE IF i >= Len(other.objective_list) THEN Raise("IndexError")
    ELSE addLoop(self, other, i + 1,
                 Append(added_list, self.objective_list[i + 1] + other.objective_list[i + 1]))

\* A slip in __add__: the shapes are never compared.
addUnchecked(self, other) ==
    Reading(addLoop(self, other, 0, <<>>), {"shape", "objective_list"})

\* A slip in __add__: the result is built with a flat shape.
addFlat(self, other) ==
    IF ShapesDiffer(self, other) THEN Reading(Raise("Exception"), {"shape"})
    ELSE LET r == addLoop(self, other, 0, <<>>)
         IN  Reading(IF r.ret = "return"
                     THEN Return(tequilaTensor(r.value.objective_list,
                                               <<Len(r.value.objective_list)>>))
                     ELSE r,
                     {"shape", "objective_list"})

\* __add__(self, other), other a tequilaTensor.
__add__(self, other) ==
    IF ShapesDiffer(self, other) THEN Reading(Raise("Exception"), {"shape"})
    ELSE Reading(addLoop(self, other, 0, <<>>),
                 IF Len(self.objective_list) = 0 THEN {"shape"}
                 ELSE {"shape", "objective_list"})

RECURSIVE mulScalarLoop(_, _, _, _)
\* The first loop of __mul__ (other a number) and the return after it.
mulScalarLoop(self, other, i, multiplied_list) ==
    IF i >= Len(self.objective_list)
    THEN Return(tequilaTensor(multiplied_list, self.shape))
    ELSE mulScalarLoop(self, other, i + 1,
                       Append(multiplied_list, self.objective_list[i + 1] * other.val))

RECURSIVE mulLoop(_, _, _, _)
\* The second loop of __mul__ (other not a number) and the return after it.
mulLoop(self, other, i, multiplied_list) ==
    IF i >= Len(self.objective_list)
    THEN Return(tequilaTensor(multiplied_list, self.shape))
    ELSE IF ~HasAttr(other, "objective_list") THEN Raise("AttributeError")
    ELSE IF i >= Len(other.objective_list) THEN Raise("IndexError")
    ELSE mulLoop(self, other, i + 1,
                 Append(multiplied_list, self.objective_list[i + 1] * other.objective_list[i + 1]))

\* isinstance(other, float) or isinstance(other, int) or isinstance(other, complex)
IsNumber(other) == other.kind \in {"float", "int", "complex"}

\* A slip in __mul__: only an int is taken for a scalar.
mulIntOnly(self, other) ==
    IF other.kind = "int" THEN Reading(mulScalarLoop(self, other, 0, <<>>), {})
    ELSE IF ~HasAttr(other, "shape") THEN Reading(Raise("AttributeError"), {"shape"})
    ELSE IF ShapesDiffer(self, other) THEN Reading(Raise("Exception"), {"shape"})
    ELSE Reading(mulLoop(self, other, 0, <<>>), {"shape", "objective_list"})

\* A slip in __mul__: the cells are added instead of multiplied.
mulAdds(self, other) ==
    IF IsNumber(other) THEN Reading(mulScalarLoop(self, other, 0, <<>>), {})
    ELSE IF ~HasAttr(other, "shape") THEN Reading(Raise("AttributeError"), {"shape"})
    ELSE IF ShapesDiffer(self, other) THEN Reading(Raise("Exception"), {"shape"})
    ELSE Reading(addLoop(self, other, 0, <<>>), {"shape", "objective_list"})

\* __mul__(self, other).
__mul__(self, other) ==
    IF IsNumber(other) THEN Reading(mulScalarLoop(self, other, 0, <<>>), {})
    ELSE IF ~HasAttr(other, "shape") THEN Reading(Raise("AttributeError"), {"shape"})
    ELSE IF ShapesDiffer(self, other) THEN Reading(Raise("Exception"), {"shape"})
    ELSE Reading(mulLoop(self, other, 0, <<>>),
                 IF Len(self.objective_list) = 0 THEN {"shape"}
                 ELSE {"shape", "objective_list"})

\* A slip in __rmul__: only numbers are passed on to __mul__.
rmulNumbersOnly(self, other) ==
    IF IsNumber(other) THEN __mul__(self, other) ELSE Reading(Raise("TypeError"), {})

\* __rmul__(self, other).
__rmul__(self, other) == __mul__(self, other)

(***************************************************************************)
(* The inputs.                                                             *)
(***************************************************************************)
Shapes == UNION {[1..r -> 1..MaxDim] : r \in 0..MaxRank}

Lists == UNION {[1..n -> 1..MaxVal] : n \in 0..MaxLen}

\* Every tensor the constructor accepts within the bounds: objective_list need
\* not hold as many entries as shape has cells.
Tensors == {tequilaTensor(l, s) : l \in Lists, s \in Shapes}

\* The index tuples access is called with.
Indices == UNION {[1..r -> (-MaxDim)..MaxDim] : r \in 0..MaxRank}

\* The numbers a tensor is multiplied with: 2, 2.0, 2 + 0j, ...
Numbers == [kind : {"int", "float", "complex"}, val : 1..MaxScalar]

\* Operands that are neither a number nor a tequilaTensor: a tequila Objective
\* (no shape attribute) and a QTensor (an ndarray: a shape, no objective_list).
Others == {[kind |-> "Objective"]} \cup {[kind |-> "QTensor", shape |-> s] : s \in Shapes}

\* Everything the notebook multiplies, or could multiply, a tensor with.
Operands == Numbers \cup Tensors \cup Others

(***************************************************************************)
(* The calls on A.  A call is made when no call is outstanding.            *)
(***************************************************************************)
\* A[idx]
Access ==
    /\ call.op = "none"
    /\ \E idx \in Indices :
        /\ call' = [op |-> "access", idx |-> idx]
        /\ res' = __getitem__(A, idx)
    /\ reads' = {}
    /\ UNCHANGED <<A, notTensor>>

\* A + B
Add ==
    /\ call.op = "none"
    /\ \E B \in Tensors :
        LET r == __add__(A, B)
        IN  /\ call' = [op |-> "add", other |-> B]
            /\ res' = r.out
            /\ reads' = r.reads
    /\ UNCHANGED <<A, notTensor>>

\* A * other
Mul ==
    /\ call.op = "none"
    /\ \E other \in Operands :
        LET r == __mul__(A, other)
        IN  /\ call' = [op |-> "mul", other |-> other]
            /\ res' = r.out
            /\ reads' = r.reads
    /\ UNCHANGED <<A, notTensor>>

\* A.__rmul__(other): what Python evaluates other * A to when other's own
\* __mul__ does not take a tequilaTensor (other a number, as in 2*A).
RMul ==
    /\ call.op = "none"
    /\ \E other \in Operands :
        LET r == __rmul__(A, other)
        IN  /\ call' = [op |-> "rmul", other |-> other]
            /\ res' = r.out
            /\ reads' = r.reads
    /\ UNCHANGED <<A, notTensor>>

\* A = <the tensor the call returned> (A = A*2, A = 2*A, A = A*A), while the
\* result stays within the bounds; any other statement just ends.
Rebind ==
    /\ call.op # "none"
    /\ A' = IF res.ret = "return" /\ call.op # "access" /\ res.value \in Tensors
            THEN res.value ELSE A
    /\ call' = [op |-> "none"]
    /\ res' = [ret |-> "none"]
    /\ reads' = {}
    /\ UNCHANGED notTensor

TensorInit ==
    /\ A \in Tensors
    /\ call = [op |-> "none"]
    /\ res = [ret |-> "none"]
    /\ reads = {}

\* The CRz_k variables while only the tensor class is exercised.
CRzIdle ==
    /\ k = 0
    /\ a = 0
    /\ ones = {}
    /\ terms = <<>>
    /\ acc = 0
    /\ circuit = <<>>

\* The compiler variables while no gate is compiled.
CompileIdle ==
    /\ gate = [gate |-> "none"]
    /\ backend = "none"
    /\ cu1 = FALSE
    /\ stage = "done"
    /\ compiled = <<>>
    /\ todo = <<>>
    /\ sub = [n |-> 0, circ |-> <<>>]

\* The generator variables while no generator is built.
GenIdle ==
    /\ G = <<>>
    /\ ncontrol = 0
    /\ Gc = [included |-> 0, den |-> 1, coeff |-> <<>>]

\* The variables of prepare_cov_dict while it is not called.
CovIdle ==
    /\ binary_terms = <<>>
    /\ cov_dict = <<>>
    /\ outer = 0
    /\ inner = 0
    /\ returned = FALSE

\* The kernel variables while no notebook is run.
KernelIdle ==
    /\ notebook = "none"
    /\ executed = 0
    /\ namespace = {}
    /\ bodies = <<>>
    /\ failure = [exc |-> "none"]

\* The object variables while object identity plays no part.
HeapIdle ==
    /\ heap = <<>>
    /\ refs = [C |-> [kind |-> "none"], by |-> "none"]
    /\ before = <<>>

Init == TensorInit /\ CRzIdle /\ CompileIdle /\ GenIdle /\ CovIdle /\ KernelIdle /\ HeapIdle

Next == Access \/ Add \/ Mul \/ RMul \/ Rebind

Spec == Init /\ [][Next]_vars

(***************************************************************************)
(* The CRz_k decomposition.                                                *)
(*   CRz_k(a) = prod_{m} prod_{sigma in C_{k,m}}                           *)
(*                exp(-i ((-1)^m a/2^k)/2  Z_sigma(1) .. Z_sigma(m) Z)     *)
(* with the terms sorted in Gray code order.  A term is the set sigma of   *)
(* controls that carry a Z, with its rotation angle.  On a computational-  *)
(* basis state of the controls Z_sigma is the number +1 or -1, so the      *)
(* factor exp(-i t/2 Z_sigma Z) is Rz(+t) or Rz(-t) on the target.         *)
(***************************************************************************)
\* Bit j of the binary numeral of n.
Bit(n, j) == (n \div (2 ^ j)) % 2

\* Plain binary counting instead of the Gray code: term i carries a Z on the
\* controls that are the 1 bits of i.
binaryCode(i, kk) == {j \in 0..(kk - 1) : Bit(i, j) = 1}

\* The i-th word of the (reflected binary) Gray code on kk controls, as the set
\* of controls carrying a Z: i XOR (i >> 1).  For kk = 2: II, ZI, ZZ, IZ.
GrayCode(i, kk) == {j \in 0..(kk - 1) : Bit(i, j) # Bit(i, j + 1)}

\* A slip in the sign: every term rotates by +a/2^k.
termUnsigned(sigma, kk, aa) == aa \div (2 ^ kk)

\* The rotation angle of the term sigma: (-1)^m * a/2^k, m the size of sigma.
TermAngle(sigma, kk, aa) ==
    (IF Cardinality(sigma) % 2 = 0 THEN 1 ELSE -1) * (aa \div (2 ^ kk))

\* The eigenvalue of Z_sigma on the basis state whose controls in cs are |1>.
ZEigenvalue(sigma, cs) == IF Cardinality(sigma \cap cs) % 2 = 0 THEN 1 ELSE -1

\* The gates of a compiled circuit.
Rz(angle, target) == [gate |-> "Rz", angle |-> angle, target |-> target]
CNOT(control, target) == [gate |-> "CX", control |-> control, target |-> target]

\* The CNOTs from the controls in sigma onto the target, lowest control first.
RECURSIVE parityCNOTs(_, _)
parityCNOTs(sigma, target) ==
    IF sigma = {} THEN <<>>
    ELSE LET c == CHOOSE x \in sigma : \A y \in sigma : x <= y
         IN  <<CNOT(c, target)>> \o parityCNOTs(sigma \ {c}, target)

\* The position of the last rotation of circ (0 when it has none): the CNOTs
\* behind it all act onto the target and commute with one another.
lastRotation(circ) ==
    LET at == {i \in 1..Len(circ) : circ[i].gate = "Rz"}
    IN  IF at = {} THEN 0 ELSE CHOOSE i \in at : \A j \in at : j <= i

\* circ without its gate at position i.
removeAt(circ, i) == SubSeq(circ, 1, i - 1) \o SubSeq(circ, i + 1, Len(circ))

\* No cancellation: the gate is put behind the circuit as it is.
appendKeeping(circ, g) == Append(circ, g)

\* One more gate behind circ: a CNOT that meets an equal CNOT cancels with it.
appendGate(circ, g) ==
    LET meets == {i \in (lastRotation(circ) + 1)..Len(circ) : circ[i] = g}
    IN  IF g.gate = "CX" /\ meets # {}
        THEN removeAt(circ, CHOOSE i \in meets : TRUE)
        ELSE Append(circ, g)

RECURSIVE appendGates(_, _)
appendGates(circ, gs) ==
    IF gs = <<>> THEN circ
    ELSE appendGates(appendGate(circ, Head(gs)), Tail(gs))

\* exp(-i angle/2 Z_sigma Z_target) in CNOTs and one rotation: the parity of
\* the controls in sigma is added onto the target, the target is rotated, and
\* the parity is taken off again.
ExpPauliZ(sigma, angle, target) ==
    parityCNOTs(sigma, target) \o <<Rz(angle, target)>> \o parityCNOTs(sigma, target)

\* The angles a of CRz_k(a): whole multiples of 2^MaxControls, so that a/2^k is whole.
Angles == {n * (2 ^ MaxControls) : n \in ((-MaxAngle)..MaxAngle) \ {0}}

\* gates.Rz(a, control=[0..k-1], target=k) on a basis state of the controls.
CRzInit ==
    /\ k \in 0..MaxControls
    /\ a \in Angles
    /\ ones \in SUBSET (0..(k - 1))
    /\ terms = <<>>
    /\ acc = 0
    /\ circuit = <<>>

\* The tensor variables while only the decomposition runs.
TensorIdle ==
    /\ A = tequilaTensor(<<>>, <<>>)
    /\ call = [op |-> "none"]
    /\ res = [ret |-> "none"]
    /\ reads = {}

\* The next exponential-Pauli factor, in Gray code order, applied to the state.
EmitTerm ==
    /\ Len(terms) < 2 ^ k
    /\ LET sigma == GrayCode(Len(terms), k)
           angle == TermAngle(sigma, k, a)
       IN  /\ terms' = Append(terms, [sigma |-> sigma, angle |-> angle])
           /\ acc' = acc + angle * ZEigenvalue(sigma, ones)
           /\ circuit' = appendGates(circuit, ExpPauliZ(sigma, angle, k))
    /\ UNCHANGED <<k, a, ones, notCRz>>

InitCRz == TensorIdle /\ CRzInit /\ CompileIdle /\ GenIdle /\ CovIdle /\ KernelIdle /\ HeapIdle

NextCRz == EmitTerm

SpecCRz == InitCRz /\ [][NextCRz]_vars

(***************************************************************************)
(* tq.compile(qc, backend=...): the passes of the compiler, in the order   *)
(* the printed circuits show.  The qubits of a gate with j controls are    *)
(* the controls 0..j-1 and the target j.                                   *)
(***************************************************************************)
\* The angle pi, in the unit of the angles a.
Pi == 2 ^ MaxControls

Gate(name, angle, control, target) ==
    [gate |-> name, angle |-> angle, control |-> control, target |-> target]

\* gates.Toffoli(0, 1, 2) and the CNOT.
Toffoli == Gate("X", Pi, {0, 1}, 2)
CX == Gate("X", Pi, {0}, 1)

RECURSIVE concat(_)
concat(circs) == IF circs = <<>> THEN <<>> ELSE Head(circs) \o concat(Tail(circs))

\* CP_k(a) = CP_{k-1}(a/2) . CRz_k(a), with CP_0(a) = Phase(a) = Rz(a) up to
\* a global phase.
RECURSIVE controlledPhase(_, _)
controlledPhase(kk, aa) ==
    IF kk = 0 THEN <<Gate("Rz", aa, {}, 0)>>
    ELSE controlledPhase(kk - 1, aa \div 2) \o <<Gate("Rz", aa, 0..(kk - 1), kk)>>

compile_controlled_phase(g) ==
    IF g.gate = "Phase" /\ g.control # {}
    THEN controlledPhase(g.target, g.angle)
    ELSE <<g>>

\* CX_k^a = H . CP_k(a pi) . H: the phase on the controls, the basis change
\* of the target, and CRz_k between the basis changes.
compile_controlled_power(g) ==
    IF g.gate = "X" /\ Cardinality(g.control) >= 2
    THEN << Gate("Phase", g.angle \div 2, 0..(g.target - 2), g.target - 1),
            Gate("Ry", -(Pi \div 2), {}, g.target),
            Gate("Rz", g.angle, g.control, g.target),
            Gate("Ry", Pi \div 2, {}, g.target) >>
    ELSE <<g>>

\* A gate of the CRz_k circuit as a gate of the compiler.
asGate(g) ==
    IF g.gate = "Rz" THEN Gate("Rz", g.angle, {}, g.target)
    ELSE Gate("X", Pi, {g.control}, g.target)

\* The gates the backend takes as they are.  cirq takes the Toffoli; qiskit
\* takes single-qubit rotations and the CNOT, and the controlled phase (its
\* U1 with one control) when cu1 says so.
Supported(b, g) ==
    IF b = "cirq" THEN g.gate = "X"
    ELSE CASE g.gate \in {"Rz", "Ry"} -> g.control = {}
           [] g.gate = "X" -> Cardinality(g.control) <= 1
           [] g.gate = "Phase" -> Cardinality(g.control) = 1 /\ cu1
           [] OTHER -> FALSE

\* The gates the notebook compiles: Rz and Phase with controls for qiskit,
\* the CNOT and the Toffoli for qiskit and for cirq.
CompileInputs ==
    {<<Gate(n, aa, 0..(j - 1), j), "qiskit">> :
         n \in {"Rz", "Phase"}, aa \in Angles, j \in 1..MaxControls}
    \cup {<<g, b>> : g \in {CX, Toffoli}, b \in {"qiskit", "cirq"}}

CompileInit ==
    /\ \E in \in CompileInputs : gate = in[1] /\ backend = in[2]
    /\ cu1 \in BOOLEAN
    /\ stage = "controlled_phase"
    /\ compiled = <<gate>>
    /\ todo = <<>>
    /\ sub = [n |-> 0, circ |-> <<>>]

\* The passes rewrite for qiskit; for cirq the circuit is handed on as it is.
ControlledPhasePass ==
    /\ stage = "controlled_phase"
    /\ compiled' = IF backend = "qiskit"
                   THEN concat([i \in 1..Len(compiled) |->
                                    compile_controlled_phase(compiled[i])])
                   ELSE compiled
    /\ stage' = "controlled_power"
    /\ UNCHANGED <<gate, backend, cu1, todo, sub, notCompile>>

\* The circuit goes to the controlled-rotation pass, gate by gate.
ControlledPowerPass ==
    /\ stage = "controlled_power"
    /\ todo' = IF backend = "qiskit"
               THEN concat([i \in 1..Len(compiled) |->
                                compile_controlled_power(compiled[i])])
               ELSE compiled
    /\ compiled' = <<>>
    /\ stage' = "controlled_rotation"
    /\ UNCHANGED <<gate, backend, cu1, sub, notCompile>>

\* The gate the controlled-rotation pass has reached is an Rz with controls,
\* to be rewritten for qiskit.
Rewriting ==
    /\ stage = "controlled_rotation"
    /\ todo # <<>>
    /\ backend = "qiskit"
    /\ Head(todo).gate = "Rz"
    /\ Head(todo).control # {}

\* A gate that is no controlled rotation passes.
RotationKeep ==
    /\ stage = "controlled_rotation"
    /\ todo # <<>>
    /\ ~Rewriting
    /\ compiled' = Append(compiled, Head(todo))
    /\ todo' = Tail(todo)
    /\ UNCHANGED <<gate, backend, cu1, stage, sub, notCompile>>

\* The next exponential-Pauli factor of the controlled rotation, in Gray
\* code order.
RotationTerm ==
    /\ Rewriting
    /\ sub.n < 2 ^ Head(todo).target
    /\ LET g == Head(todo)
           sigma == GrayCode(sub.n, g.target)
           angle == TermAngle(sigma, g.target, g.angle)
       IN  sub' = [n |-> sub.n + 1,
                   circ |-> appendGates(sub.circ, ExpPauliZ(sigma, angle, g.target))]
    /\ UNCHANGED <<gate, backend, cu1, stage, compiled, todo, notCompile>>

\* The Gray code circuit takes the place of the controlled rotation.
RotationEmit ==
    /\ Rewriting
    /\ sub.n = 2 ^ Head(todo).target
    /\ compiled' = compiled \o [i \in 1..Len(sub.circ) |-> asGate(sub.circ[i])]
    /\ todo' = Tail(todo)
    /\ sub' = [n |-> 0, circ |-> <<>>]
    /\ UNCHANGED <<gate, backend, cu1, stage, notCompile>>

\* The last pass is through: the circuit goes to the backend.
Translate ==
    /\ stage = "controlled_rotation"
    /\ todo = <<>>
    /\ stage' = "done"
    /\ UNCHANGED <<gate, backend, cu1, compiled, todo, sub, notCompile>>

InitCompile == TensorIdle /\ CRzIdle /\ CompileInit /\ GenIdle /\ CovIdle /\ KernelIdle /\ HeapIdle

NextCompile ==
    \/ ControlledPhasePass
    \/ ControlledPowerPass
    \/ RotationKeep
    \/ RotationTerm
    \/ RotationEmit
    \/ Translate

SpecCompile == InitCompile /\ [][NextCompile]_vars

(***************************************************************************)
(* U.make_generator(include_controls=True): the generator G of U, times    *)
(* the projector (I - Z)/2 of every control.  A Pauli string is the set zs *)
(* of controls that carry a Z with the Pauli p of the target ("I" for the  *)
(* constant term); a generator gives each of its Pauli strings a           *)
(* coefficient coeff / den.                                                *)
(***************************************************************************)
\* The largest coefficient of a term of U.generator.
MaxCoeff == 2

PauliString(zs, p) == [zs |-> zs, p |-> p]

\* A slip in the sign: (I + Z)/2, the projector on |0>.
projectorOnZero(c) == [den |-> 2, coeff |-> [z \in BOOLEAN |-> 1]]

\* (I - Z_c)/2 = |1><1| on control c: the coefficient of I and that of Z_c.
projectorOnOne(c) == [den |-> 2, coeff |-> [z \in BOOLEAN |-> IF z THEN -1 ELSE 1]]

\* The product of the projector on control c with the generator g, which
\* has no operator on c: every term of g once with I and once with Z on c.
timesProjector(g, c) ==
    LET pr == projectorOnOne(c)
        strings == {PauliString(t.zs \cup (IF z THEN {c} ELSE {}), t.p) :
                        t \in DOMAIN g.coeff, z \in BOOLEAN}
    IN  [included |-> g.included + 1,
         den |-> g.den * pr.den,
         coeff |-> [t \in strings |->
                       g.coeff[PauliString(t.zs \ {c}, t.p)] * pr.coeff[(c \in t.zs)]]]

\* The generators of the gates: one or more Paulis of the target, each with
\* a non-zero coefficient (X for Rx, Z - 1 for a power of Z).
Generators ==
    UNION {[ps -> ((-MaxCoeff)..MaxCoeff) \ {0}] :
               ps \in (SUBSET {"I", "X", "Y", "Z"}) \ {{}}}

\* U = gates.Rx(angle, control=..., target=...): make_generator starts from
\* U.generator.
GenInit ==
    /\ G \in Generators
    /\ ncontrol \in 0..MaxControls
    /\ Gc = [included |-> 0, den |-> 1,
             coeff |-> [t \in {PauliString({}, p) : p \in DOMAIN G} |-> G[t.p]]]

\* The projector of the next control is multiplied in.
IncludeControl ==
    /\ Gc.included < ncontrol
    /\ Gc' = timesProjector(Gc, Gc.included)
    /\ UNCHANGED <<G, ncontrol, notGen>>

InitGen == TensorIdle /\ CRzIdle /\ CompileIdle /\ GenInit /\ CovIdle /\ KernelIdle /\ HeapIdle

NextGen == IncludeControl

SpecGen == InitGen /\ [][NextGen]_vars

(***************************************************************************)
(* prepare_cov_dict(H) of the OptimizedMeasurements notebook.  A term of   *)
(* H.binary_terms is its binary vector (x | z): entry q says whether the   *)
(* Pauli on qubit q has an X part, entry NQubits + q whether it has a Z    *)
(* part.  term.binary_tuple() is that vector as a tuple.                   *)
(***************************************************************************)
\* The number of qubits of H.
NQubits == 2
\* The largest number of terms of H.
MaxTerms == 2

BinaryVectors == [1..(2 * NQubits) -> {0, 1}]

binary_tuple(term) == term

\* The symplectic product of two binary vectors, qubits 1..q.
RECURSIVE symplectic(_, _, _)
symplectic(v, w, q) ==
    IF q = 0 THEN 0
    ELSE v[q] * w[NQubits + q] + v[NQubits + q] * w[q] + symplectic(v, w, q - 1)

\* pw1.commute(pw2): two Pauli strings commute when the symplectic product
\* of their binary vectors is even.
commute(pw1, pw2) == symplectic(pw1, pw2, NQubits) % 2 = 0

\* The covariance <P1 P2> - <P1><P2> in the wavefunction wfn0, as a value
\* named after its two operators.
Cov(op1, op2) == [cov |-> <<op1, op2>>]

\* d[key] = value on a Python dict.
setItem(d, key, value) ==
    [x \in (DOMAIN d) \cup {key} |-> IF x = key THEN value ELSE d[x]]

\* The inner loop over every term instead of terms[idx:].
wholeList(lst, i) == lst

\* terms[idx:], idx a Python position.
suffix(lst, i) == SubSeq(lst, i + 1, Len(lst))

\* The lists of distinct terms of a Hamiltonian.
TermLists ==
    {ts \in UNION {[1..n -> BinaryVectors] : n \in 0..MaxTerms} :
         \A i, j \in 1..Len(ts) : i # j => ts[i] # ts[j]}

\* cov_dict = prepare_cov_dict(Hbin), at the head of the loops.
CovInit ==
    /\ binary_terms \in TermLists
    /\ cov_dict = <<>>
    /\ outer = 0
    /\ inner = 0
    /\ returned = FALSE

\* One pass of the inner loop body: term2 is the next term of terms[idx:].
InnerLoop ==
    /\ ~returned
    /\ outer < Len(binary_terms)
    /\ inner < Len(suffix(binary_terms, outer))
    /\ LET term1 == binary_terms[outer + 1]
           term2 == suffix(binary_terms, outer)[inner + 1]
       IN  cov_dict' = IF commute(term1, term2)
                       THEN setItem(cov_dict,
                                    <<binary_tuple(term1), binary_tuple(term2)>>,
                                    Cov(term1, term2))
                       ELSE cov_dict
    /\ inner' = inner + 1
    /\ UNCHANGED <<binary_terms, outer, returned, notCov>>

\* terms[idx:] is exhausted: the outer loop moves to the next term1.
OuterLoop ==
    /\ ~returned
    /\ outer < Len(binary_terms)
    /\ inner = Len(suffix(binary_terms, outer))
    /\ outer' = outer + 1
    /\ inner' = 0
    /\ UNCHANGED <<binary_terms, cov_dict, returned, notCov>>

\* return cov_dict
ReturnCovDict ==
    /\ ~returned
    /\ outer = Len(binary_terms)
    /\ returned' = TRUE
    /\ UNCHANGED <<binary_terms, cov_dict, outer, inner, notCov>>

InitCov == TensorIdle /\ CRzIdle /\ CompileIdle /\ GenIdle /\ CovInit /\ KernelIdle /\ HeapIdle

NextCov == InnerLoop \/ OuterLoop \/ ReturnCovDict

SpecCov == InitCov /\ [][NextCov]_vars

(***************************************************************************)
(* Running a notebook: a fresh kernel executes the statements of the code  *)
(* cells once, top to bottom.  A statement is the line of the file it      *)
(* starts on, the global names it reads, the names it binds and, for a def *)
(* or class, the global names its body reads when it is called.  Builtins  *)
(* (print, range, len, open, ...) are bound from the start and left out.   *)
(***************************************************************************)
Statement(line, names_read, names_bound, body) ==
    [line |-> line, reads |-> names_read, binds |-> names_bound, body |-> body]

\* The statements of the code cells of CircuitCompiler.ipynb, top to bottom.
CircuitCompilerStatements ==
    << Statement(37, {}, {"pi"}, {}),
       Statement(39, {}, {"tq"}, {}),
       Statement(40, {}, {"gates"}, {}),
       Statement(42, {}, {"QCircuit"}, {}),
       Statement(72, {"QCircuit"}, {"qc"}, {}),
       Statement(73, {"gates", "pi", "qc"}, {"qc"}, {}),
       Statement(74, {"gates", "qc"}, {"qc"}, {}),
       Statement(77, {"qc"}, {"G", "U"}, {}),
       Statement(125, {"gates", "pi"}, {"qc"}, {}),
       Statement(127, {"qc"}, {"G", "Gc", "U"}, {}),
       Statement(170, {"gates"}, {"qc"}, {}),
       Statement(172, {"qc", "tq"}, {"compiled"}, {}),
       Statement(173, {"compiled"}, {}, {}),
       Statement(226, {"gates", "pi"}, {"qc"}, {}),
       Statement(228, {"qc", "tq"}, {"compiled"}, {}),
       Statement(229, {"compiled"}, {}, {}),
       Statement(263, {"gates", "pi"}, {"qc"}, {}),
       Statement(265, {"qc", "tq"}, {"compiled"}, {}),
       Statement(266, {"compiled"}, {}, {}),
       Statement(309, {"gates", "pi"}, {"qc"}, {}),
       Statement(311, {"qc", "tq"}, {"compiled"}, {}),
       Statement(312, {"compiled"}, {}, {}),
       Statement(352, {"gates"}, {"qc"}, {}),
       Statement(354, {"qc", "tq"}, {"compiled"}, {}),
       Statement(355, {"compiled"}, {}, {}),
       Statement(396, {"gates"}, {"qc"}, {}),
       Statement(398, {"qc", "tq"}, {"compiled"}, {}),
       Statement(399, {"compiled"}, {}, {}) >>

\* The statements of the code cells of OptimizedMeasurements.ipynb, top to bottom.
OptimizedMeasurementsStatements ==
    << Statement(48, {}, {"PauliString", "QubitHamiltonian"}, {}),
       Statement(49, {}, {"BinaryHamiltonian", "BinaryPauliString"}, {}),
       Statement(50, {}, {"np"}, {}),
       Statement(51, {}, {"pickle"}, {}),
       Statement(53, {}, {"prepare_test_hamiltonian"}, {"BinaryHamiltonian", "tq"}),
       Statement(74, {}, {"prepare_cov_dict"}, {"BinaryPauliString", "QubitHamiltonian", "pickle", "tq"}),
       Statement(96, {"prepare_test_hamiltonian"}, {"Hbin", "n_paulis", "wfn0"}, {}),
       Statement(97, {"Hbin", "prepare_cov_dict"}, {"cov_dict"}, {}),
       Statement(99, {"tq"}, {"U"}, {}),
       Statement(100, {"np"}, {"variables"}, {}),
       Statement(120, {"cov_dict"}, {"options"}, {}),
       Statement(167, {}, {}, {}),
       Statement(168, {}, {}, {}),
       Statement(169, {}, {}, {}),
       Statement(170, {"Hbin", "U", "tq"}, {"e_ori"}, {}),
       Statement(171, {"e_ori"}, {}, {}),
       Statement(172, {}, {}, {}),
       Statement(173, {}, {}, {}),
       Statement(174, {}, {}, {}),
       Statement(175, {"Hbin", "U", "options", "tq"}, {"e_ics"}, {}),
       Statement(176, {"e_ics"}, {}, {}),
       Statement(177, {}, {}, {}),
       Statement(179, {"e_ori", "tq", "variables"}, {"result_ori"}, {}),
       Statement(180, {"result_ori"}, {}, {}),
       Statement(182, {}, {"n_meas"}, {}),
       Statement(184, {"n_meas", "np"}, {"exp_ics"}, {}),
       Statement(185, {"n_meas", "np"}, {"exp_no_opt"}, {}),
       Statement(187, {"e_ics", "tq"}, {"compiled_ics"}, {}),
       Statement(188, {"e_ori", "tq"}, {"compiled_no_opt"}, {}),
       Statement(190, {"compiled_ics", "compiled_no_opt", "exp_ics", "exp_no_opt", "n_meas", "n_paulis", "variables"}, {"repeat"}, {}),
       Statement(194, {"exp_ics", "np"}, {}, {}),
       Statement(195, {"exp_no_opt", "np"}, {}, {}),
       Statement(196, {"exp_ics", "exp_no_opt", "np", "result_ori"}, {}, {}) >>

\* The statements of the code cells of part_000, top to bottom.
KrylovStatements ==
    << Statement(68, {}, {"tq"}, {}),
       Statement(69, {}, {"krylov_method"}, {}),
       Statement(70, {}, {"QubitHamiltonian"}, {}),
       Statement(71, {}, {"make_random_circuit"}, {}),
       Statement(72, {}, {"it"}, {}),
       Statement(73, {}, {"np"}, {}),
       Statement(89, {"np"}, {}, {}),
       Statement(90, {}, {"n_krylov_states"}, {}),
       Statement(92, {"make_random_circuit", "n_krylov_states"}, {"krylov_circs"}, {}),
       Statement(95, {"krylov_circs", "tq"}, {"krylov_states"}, {}),
       Statement(113, {"it", "krylov_states"}, {"krylov_states_couples"}, {}),
       Statement(116, {"QubitHamiltonian"}, {"H"}, {}),
       Statement(117, {"H", "krylov_states_couples", "tq"}, {"H", "i", "j"}, {}),
       Statement(135, {"H", "krylov_circs", "krylov_method"}, {"kry_coefficients_matrix", "kry_energies"}, {}),
       Statement(137, {"kry_energies"}, {"kry_ground_energy"}, {}),
       Statement(138, {"kry_coefficients_matrix"}, {"kry_ground_coefficients"}, {}),
       Statement(155, {"H", "np"}, {"eigenvalues", "eigenvectors"}, {}),
       Statement(180, {"kry_ground_energy"}, {}, {}),
       Statement(181, {"eigenvalues"}, {}, {}),
       Statement(198, {"tq"}, {"ground_state"}, {}),
       Statement(199, {"ground_state", "kry_ground_coefficients", "krylov_states", "n_krylov_states"}, {"ground_state", "i"}, {}),
       Statement(201, {"ground_state"}, {}, {}),
       Statement(218, {"eigenvectors", "tq"}, {"wfn"}, {}),
       Statement(220, {"wfn"}, {}, {}),
       Statement(247, {"ground_state", "wfn"}, {"fidelity"}, {}),
       Statement(248, {"fidelity"}, {}, {}) >>

\* The statements of the code cells of part_001, top to bottom.
QTensorStatements ==
    << Statement(32, {}, {"tq"}, {}),
       Statement(33, {}, {"np"}, {}),
       Statement(34, {}, {"pi"}, {}),
       Statement(53, {}, {"tequilaTensor"}, {}),
       Statement(106, {}, {"tequilaTensor"}, {"tequilaTensor"}),
       Statement(168, {}, {"tequilaTensor"}, {"tequilaTensor"}),
       Statement(268, {"tequilaTensor"}, {"A"}, {}),
       Statement(271, {"A"}, {}, {}),
       Statement(274, {"A"}, {"A"}, {}),
       Statement(275, {"A"}, {}, {}),
       Statement(278, {"A"}, {"A"}, {}),
       Statement(279, {"A"}, {}, {}),
       Statement(282, {"A"}, {"A"}, {}),
       Statement(283, {"A"}, {}, {}),
       Statement(289, {"tequilaTensor"}, {"B"}, {}),
       Statement(291, {"A", "B"}, {"C"}, {}),
       Statement(293, {"A"}, {}, {}),
       Statement(294, {"B"}, {}, {}),
       Statement(295, {"C"}, {}, {}),
       Statement(298, {"B"}, {"C"}, {}),
       Statement(299, {"B"}, {}, {}),
       Statement(300, {"C"}, {}, {}),
       Statement(301, {"B"}, {}, {}),
       Statement(302, {"A"}, {"i", "j"}, {}),
       Statement(345, {"pi", "tq"}, {"U0"}, {}),
       Statement(346, {"tq"}, {"H0"}, {}),
       Statement(347, {"H0", "U0", "tq"}, {"E0"}, {}),
       Statement(349, {"H0"}, {}, {}),
       Statement(350, {"E0"}, {}, {}),
       Statement(360, {"tq"}, {"U"}, {}),
       Statement(362, {"tq"}, {"H1"}, {}),
       Statement(363, {"tq"}, {"H2"}, {}),
       Statement(364, {"tq"}, {"H3"}, {}),
       Statement(365, {"tq"}, {"H4"}, {}),
       Statement(367, {"H1", "U", "tq"}, {"E1"}, {}),
       Statement(368, {"H2", "U", "tq"}, {"E2"}, {}),
       Statement(369, {"H3", "U", "tq"}, {"E3"}, {}),
       Statement(370, {"H4", "U", "tq"}, {"E4"}, {}),
       Statement(393, {"E1", "E2", "tequilaTensor"}, {"X"}, {}),
       Statement(394, {"E1", "E2", "E3", "E4", "tequilaTensor"}, {"Y"}, {}),
       Statement(415, {"X", "tq"}, {}, {}),
       Statement(416, {"Y", "tq"}, {}, {}),
       Statement(417, {"Y", "tq"}, {}, {}),
       Statement(418, {"Y", "tq"}, {}, {}),
       Statement(442, {"Y"}, {}, {}),
       Statement(443, {"Y", "tq"}, {}, {}),
       Statement(444, {"X"}, {}, {}),
       Statement(445, {"Y"}, {}, {}),
       Statement(478, {"Y"}, {"Z"}, {}),
       Statement(481, {"Y"}, {"Z1"}, {}),
       Statement(482, {"Y"}, {"Z2"}, {}),
       Statement(483, {"Y"}, {"Z3"}, {}),
       Statement(484, {"Z3"}, {"i", "j"}, {}),
       Statement(517, {"tq"}, {"V"}, {}),
       Statement(518, {"tq"}, {"W"}, {}),
       Statement(519, {"E1", "V"}, {}, {}),
       Statement(520, {"E2", "V"}, {}, {}),
       Statement(521, {"E3", "V"}, {}, {}),
       Statement(522, {"E4", "V"}, {}, {}),
       Statement(523, {"E1", "W"}, {}, {}),
       Statement(524, {"E2", "W"}, {}, {}),
       Statement(560, {"V"}, {}, {}),
       Statement(561, {"W"}, {}, {}),
       Statement(591, {"V", "W", "np"}, {"U"}, {}),
       Statement(592, {"U"}, {}, {}),
       Statement(593, {"U"}, {}, {}),
       Statement(625, {"V", "tq"}, {}, {}),
       Statement(626, {"W", "tq"}, {}, {}),
       Statement(627, {"U", "tq"}, {}, {}),
       Statement(654, {"V", "np"}, {"V1"}, {}),
       Statement(655, {"V1", "tq"}, {}, {}) >>

Notebooks == {"CircuitCompiler", "OptimizedMeasurements", "Krylov", "QTensor"}

Statements(nb) ==
    CASE nb = "CircuitCompiler" -> CircuitCompilerStatements
      [] nb = "OptimizedMeasurements" -> OptimizedMeasurementsStatements
      [] nb = "Krylov" -> KrylovStatements
      [] nb = "QTensor" -> QTensorStatements

\* The names looked up when names are read: a function that is read is
\* called, and its body reads names in turn (n levels of calls).
RECURSIVE lookedUp(_, _, _)
lookedUp(names, defs, n) ==
    IF n = 0 THEN names
    ELSE lookedUp(names \cup UNION {defs[f] : f \in names \cap DOMAIN defs},
                  defs, n - 1)

\* The statement the kernel executes next, and the names it looks up.
NextStatement == Statements(notebook)[executed + 1]
Lookups == lookedUp(NextStatement.reads, bodies, Cardinality(DOMAIN bodies))

\* Restart the kernel and run all cells.
KernelInit ==
    /\ notebook \in Notebooks
    /\ executed = 0
    /\ namespace = {}
    /\ bodies = <<>>
    /\ failure = [exc |-> "none"]

\* The next statement finds every name bound: it runs and binds its names.
Execute ==
    /\ failure.exc = "none"
    /\ executed < Len(Statements(notebook))
    /\ Lookups \subseteq namespace
    /\ namespace' = namespace \cup NextStatement.binds
    /\ bodies' = [f \in (DOMAIN bodies) \cup NextStatement.binds |->
                      IF f \in NextStatement.binds THEN NextStatement.body
                      ELSE bodies[f]]
    /\ executed' = executed + 1
    /\ UNCHANGED <<notebook, failure, notKernel>>

\* The next statement looks up a name that is not bound: NameError, and
\* the run stops.
NameError ==
    /\ failure.exc = "none"
    /\ executed < Len(Statements(notebook))
    /\ ~(Lookups \subseteq namespace)
    /\ failure' = [exc |-> "NameError",
                   line |-> NextStatement.line,
                   names |-> Lookups \ namespace]
    /\ UNCHANGED <<notebook, executed, namespace, bodies, notKernel>>

InitKernel == TensorIdle /\ CRzIdle /\ CompileIdle /\ GenIdle /\ CovIdle /\ KernelInit /\ HeapIdle

NextKernel == Execute \/ NameError

SpecKernel == InitKernel /\ [][NextKernel]_vars

(***************************************************************************)
(* The tensor class with object identity.  A Python list is an object:    *)
(* heap gives the content of each list, and an attribute of a tensor is   *)
(* the identity of the list it refers to.  Two attributes that hold the   *)
(* same identity are one list, and an in-place change shows through both. *)
(***************************************************************************)
\* tequilaTensor.__init__: the attributes refer to the very lists passed in.
construct(objective_list, shape) ==
    [kind |-> "tequilaTensor", shape |-> shape, objective_list |-> objective_list]

\* The tensor (or number) a reference stands for, read off the heap h.
value(h, ref) ==
    IF ref.kind = "tequilaTensor"
    THEN tequilaTensor(h[ref.objective_list], h[ref.shape])
    ELSE ref

\* A list object that is not on the heap yet.
fresh(h) == Cardinality(DOMAIN h) + 1

\* The operands: B a tensor that A can be added to and multiplied with, or
\* a number.  Each tensor was built from list literals of its own.
HeapInit ==
    /\ \E ta \in Tensors :
       \E tb \in {t \in Tensors : /\ t.shape = ta.shape
                                  /\ Len(t.objective_list) = Len(ta.objective_list)}
                   \cup Numbers :
           IF IsNumber(tb)
           THEN /\ heap = <<ta.objective_list, ta.shape>>
                /\ refs = [A |-> construct(1, 2), B |-> tb, C |-> [kind |-> "none"],
                           by |-> "none"]
           ELSE /\ heap = <<ta.objective_list, ta.shape, tb.objective_list, tb.shape>>
                /\ refs = [A |-> construct(1, 2), B |-> construct(3, 4),
                           C |-> [kind |-> "none"], by |-> "none"]
    /\ before = <<>>

\* The tensor a method returned to the statement stmt: a new list holds the
\* entries, built by append from [], and shape=self.shape hands on the list
\* of self.
returnTensor(outcome, stmt) ==
    /\ outcome.ret = "return"
    /\ heap' = Append(heap, outcome.value.objective_list)
    /\ refs' = [refs EXCEPT !.C = construct(fresh(heap), refs.A.shape), !.by = stmt]
    /\ before' = heap'

\* C = A + B
AddResult ==
    /\ refs.C.kind = "none"
    /\ refs.B.kind = "tequilaTensor"
    /\ returnTensor(__add__(value(heap, refs.A), value(heap, refs.B)).out, "A + B")
    /\ UNCHANGED notHeap

\* C = A * B, C = A * s
MulResult ==
    /\ refs.C.kind = "none"
    /\ returnTensor(__mul__(value(heap, refs.A), value(heap, refs.B)).out, "A * B")
    /\ UNCHANGED notHeap

\* C = s * A
RMulResult ==
    /\ refs.C.kind = "none"
    /\ IsNumber(refs.B)
    /\ returnTensor(__rmul__(value(heap, refs.A), value(heap, refs.B)).out, "B * A")
    /\ UNCHANGED notHeap

\* An in-place change of a list of the result: C.shape.append(v),
\* C.objective_list.append(v).
ChangeInPlace ==
    /\ refs.C.kind = "tequilaTensor"
    /\ heap = before
    /\ \E attr \in {"shape", "objective_list"}, v \in 1..MaxVal :
           heap' = [heap EXCEPT ![refs.C[attr]] = Append(@, v)]
    /\ UNCHANGED <<refs, before, notHeap>>

InitHeap ==
    TensorIdle /\ CRzIdle /\ CompileIdle /\ GenIdle /\ CovIdle /\ KernelIdle /\ HeapInit

NextHeap == AddResult \/ MulResult \/ RMulResult \/ ChangeInPlace

SpecHeap == InitHeap /\ [][NextHeap]_vars

(***************************************************************************)
(* Properties of the tensor class.                                         *)
(***************************************************************************)
RECURSIVE NumCells(_)
\* The number of cells of a tensor of this shape: the product of its extents.
NumCells(shape) ==
    IF shape = <<>> THEN 1 ELSE Head(shape) * NumCells(Tail(shape))

\* objective_list holds exactly one entry per cell.
WellFormed(T) == Len(T.objective_list) = NumCells(T.shape)

\* idx has one component per axis, each within 0..extent-1.
InRange(shape, idx) ==
    /\ Len(idx) = Len(shape)
    /\ \A j \in 1..Len(idx) : 0 <= idx[j] /\ idx[j] < shape[j]

RECURSIVE RowMajorUpTo(_, _, _)
\* The row-major offset of the first n components of idx, by Horner's rule.
RowMajorUpTo(shape, idx, n) ==
    IF n = 0 THEN 0 ELSE RowMajorUpTo(shape, idx, n - 1) * shape[n] + idx[n]

\* p = sum over i of idx[i] * (product of shape[i+1..end]).
RowMajor(shape, idx) == RowMajorUpTo(shape, idx, Len(idx))

\* Every index tuple of a tensor of this shape.
CellIndices(shape) == {idx \in Indices : InRange(shape, idx)}

\* The tensor has a cell stored for idx.
HasCell(T, idx) == InRange(T.shape, idx) /\ RowMajor(T.shape, idx) < Len(T.objective_list)

\* The call returned a tequilaTensor.
ReturnedTensor == res.ret = "return" /\ res.value.kind = "tequilaTensor"

\* The other operand of the call is a tequilaTensor of A's shape.
SameShapeTensor ==
    call.other.kind = "tequilaTensor" /\ call.other.shape = A.shape

\* C1: on a tensor with one entry per cell, access(idx) with idx in range
\* returns objective_list[p], p the row-major offset of idx; the all-zero index
\* is the first entry and the largest index is the last.
C1_AccessRowMajor ==
    (call.op = "access" /\ WellFormed(A) /\ InRange(A.shape, call.idx)) =>
        /\ res = Return(A.objective_list[RowMajor(A.shape, call.idx) + 1])
        /\ (\A j \in 1..Len(call.idx) : call.idx[j] = 0)
              => res = Return(A.objective_list[1])
        /\ (\A j \in 1..Len(call.idx) : call.idx[j] = A.shape[j] - 1)
              => res = Return(A.objective_list[Len(A.objective_list)])

\* C1 witness: A[1,0] on a 2 x 2 tensor returned its third entry, and no other.
C1_Witness ==
    /\ call.op = "access"
    /\ A.shape = <<2, 2>>
    /\ WellFormed(A)
    /\ call.idx = <<1, 0>>
    /\ A.objective_list = <<1, 1, 2, 1>>
    /\ res = Return(2)

\* At every index where A and the other operand have a cell, the returned
\* tensor has one, and it is f(cell of A, cell of other).
CellsCombine(f(_, _)) ==
    \A idx \in CellIndices(A.shape) :
        LET ca == access(A, idx)
            cb == access(call.other, idx)
            cc == access(res.value, idx)
        IN  (ca.ret = "return" /\ cb.ret = "return") =>
                /\ cc.ret = "return"
                /\ cc.value = f(ca.value, cb.value)

\* A and the other operand hold one entry per cell, and so does the returned
\* tensor: it has a cell at every index.
CellsComplete ==
    (WellFormed(A) /\ WellFormed(call.other)) =>
        /\ WellFormed(res.value)
        /\ \A idx \in CellIndices(A.shape) : access(res.value, idx).ret = "return"

\* The objective_lists of A and of the other operand are equally long.
EquallyLong == Len(A.objective_list) = Len(call.other.objective_list)

Plus(x, y) == x + y

Times(x, y) == x * y

\* C2 as claimed: for any two tensors of equal shape A + B returns a tensor of
\* that shape whose cells are the sums of the cells of A and B.
C2_AddAnyEqualShape ==
    (call.op = "add" /\ SameShapeTensor) =>
        /\ ReturnedTensor
        /\ res.value.shape = A.shape
        /\ CellsCombine(Plus)

\* C2 amended: for two tensors of equal shape whose objective_lists are equally
\* long (as they are when each holds one entry per cell), A + B returns a tensor
\* of that shape whose cell at every index is the sum of the cells of A and B.
C2_AddEqualShape ==
    (call.op = "add" /\ SameShapeTensor /\ EquallyLong) =>
        /\ ReturnedTensor
        /\ res.value.shape = A.shape
        /\ CellsCombine(Plus)
        /\ CellsComplete

\* C2 witness: two 2 x 2 tensors with four entries each were added.
C2_Witness ==
    /\ call.op = "add"
    /\ A = tequilaTensor(<<1, 2, 2, 1>>, <<2, 2>>)
    /\ call.other = tequilaTensor(<<2, 2, 1, 1>>, <<2, 2>>)
    /\ res = Return(tequilaTensor(<<3, 4, 3, 2>>, <<2, 2>>))

\* C3: A + B and A * B, B a tensor, raise the shape exception and return
\* nothing when the shapes differ, and raise no shape exception when they are
\* the same.
C3_ShapeMismatchRaises ==
    (call.op \in {"add", "mul"} /\ call.other.kind = "tequilaTensor") =>
        /\ (A.shape # call.other.shape) => res = Raise("Exception")
        /\ (A.shape = call.other.shape) => res # Raise("Exception")

\* C3 witness: a 1 x 2 and a 2 x 1 tensor, two entries each, were multiplied
\* and the call raised.
C3_Witness ==
    /\ call.op = "mul"
    /\ A = tequilaTensor(<<1, 2>>, <<1, 2>>)
    /\ call.other = tequilaTensor(<<1, 2>>, <<2, 1>>)
    /\ res = Raise("Exception")

\* C4 as claimed: access returns an element only for an index tuple that names
\* an existing cell; for any other tuple (wrong length, a component above the
\* extent or below 0) it raises.
C4_AccessChecksIndex ==
    (call.op = "access") =>
        /\ (res.ret = "return") => HasCell(A, call.idx)
        /\ (~InRange(A.shape, call.idx)) => res.ret = "raise"

\* C5: A * s, s an int, a float or a complex, returns a tensor of A's shape
\* whose entry at every position i is A.objective_list[i] * s.
C5_ScalarMul ==
    (call.op = "mul" /\ call.other.kind \in {"int", "float", "complex"}) =>
        /\ ReturnedTensor
        /\ res.value.shape = A.shape
        /\ Len(res.value.objective_list) = Len(A.objective_list)
        /\ \A i \in 1..Len(A.objective_list) :
               res.value.objective_list[i] = A.objective_list[i] * call.other.val

\* C5 witness: a 2 x 2 tensor was multiplied by the float 2.0.
C5_Witness ==
    /\ call.op = "mul"
    /\ call.other = [kind |-> "float", val |-> 2]
    /\ A = tequilaTensor(<<1, 2, 2, 1>>, <<2, 2>>)
    /\ res = Return(tequilaTensor(<<2, 4, 4, 2>>, <<2, 2>>))

\* The outcome of A * x as the claims C5 and C7 describe it, for x a number or
\* a tensor of A's shape: the entries of A times x, or times the entries of x,
\* and IndexError where x runs out of entries.
RightProduct(x) ==
    IF x.kind \in {"int", "float", "complex"}
    THEN Return(tequilaTensor([i \in 1..Len(A.objective_list) |->
                                   A.objective_list[i] * x.val], A.shape))
    ELSE IF Len(A.objective_list) > Len(x.objective_list) THEN Raise("IndexError")
    ELSE Return(tequilaTensor([i \in 1..Len(A.objective_list) |->
                                   A.objective_list[i] * x.objective_list[i]], A.shape))

\* C6: x * A, handed to A.__rmul__, gives what A * x gives, for x a number or
\* a tensor of A's shape: the same tensor, or a raise exactly when A * x raises.
C6_LeftMulAgrees ==
    (call.op = "rmul" /\ (call.other.kind \in {"int", "float", "complex"}
                          \/ SameShapeTensor)) =>
        res = RightProduct(call.other)

\* C6 witness: 2 * A was computed for a 2 x 2 tensor.
C6_Witness ==
    /\ call.op = "rmul"
    /\ call.other = [kind |-> "int", val |-> 2]
    /\ A = tequilaTensor(<<1, 2, 2, 1>>, <<2, 2>>)
    /\ res = Return(tequilaTensor(<<2, 4, 4, 2>>, <<2, 2>>))

\* C7 as claimed: for any two tensors of equal shape A * B returns a tensor of
\* that shape whose cells are the products of the cells of A and B.
C7_MulAnyEqualShape ==
    (call.op = "mul" /\ SameShapeTensor) =>
        /\ ReturnedTensor
        /\ res.value.shape = A.shape
        /\ CellsCombine(Times)

\* C7 amended: for two tensors of equal shape whose objective_lists are equally
\* long (as they are when each holds one entry per cell, and always in A * A),
\* A * B returns a tensor of that shape whose cell at every index is the product
\* of the cells of A and B; A * A squares every entry.
C7_MulEqualShape ==
    (call.op = "mul" /\ SameShapeTensor /\ EquallyLong) =>
        /\ ReturnedTensor
        /\ res.value.shape = A.shape
        /\ CellsCombine(Times)
        /\ CellsComplete
        /\ (call.other = A) =>
               /\ Len(res.value.objective_list) = Len(A.objective_list)
               /\ \A i \in 1..Len(A.objective_list) :
                      res.value.objective_list[i] = A.objective_list[i] * A.objective_list[i]

\* C7 witness: A * A was computed for a 2 x 2 tensor with four entries.
C7_Witness ==
    /\ call.op = "mul"
    /\ A = tequilaTensor(<<1, 2, 2, 1>>, <<2, 2>>)
    /\ call.other = A
    /\ res = Return(tequilaTensor(<<1, 4, 4, 1>>, <<2, 2>>))

\* C8 as claimed: __mul__ reads shape and objective_list only of an operand
\* that is a tequilaTensor; an operand that is neither a number nor a
\* tequilaTensor is never taken down the tensor path.
C8_MulChecksOperandKind ==
    (call.op = "mul" /\ reads # {}) => call.other.kind = "tequilaTensor"

(***************************************************************************)
(* Properties of the CRz_k decomposition.                                  *)
(***************************************************************************)
\* All 2^k factors have been emitted.
AllEmitted == Len(terms) = 2 ^ k

\* C9: once the 2^k factors are applied, the target has been rotated by a when
\* every control is |1> and by 0 (the identity) when some control is |0>; each
\* factor carries the angle (-1)^|sigma| * a/2^k.
C9_ControlledRotation ==
    /\ \A i \in 1..Len(terms) :
           /\ terms[i].sigma \subseteq 0..(k - 1)
           /\ (2 ^ k) * terms[i].angle =
                  (IF Cardinality(terms[i].sigma) % 2 = 0 THEN a ELSE -a)
    /\ AllEmitted => acc = (IF ones = 0..(k - 1) THEN a ELSE 0)

\* C9 witness: the four factors of CRz_2 were applied with both controls |1>
\* and rotated the target by a.
C9_Witness ==
    /\ k = 2
    /\ AllEmitted
    /\ ones = {0, 1}
    /\ a # 0
    /\ acc = a

\* C10: the terms come in Gray code order: no subset of the controls twice,
\* consecutive terms differ in the Z of exactly one control, all 2^k subsets
\* once the decomposition is complete, and II, ZI, ZZ, IZ for k = 2.
C10_GrayCodeOrder ==
    /\ \A i, j \in 1..Len(terms) : (i # j) => terms[i].sigma # terms[j].sigma
    /\ \A i \in 1..(Len(terms) - 1) :
           Cardinality((terms[i].sigma \ terms[i + 1].sigma)
                       \cup (terms[i + 1].sigma \ terms[i].sigma)) = 1
    /\ AllEmitted => {terms[i].sigma : i \in 1..Len(terms)} = SUBSET (0..(k - 1))
    /\ (AllEmitted /\ k = 2) =>
           [i \in 1..4 |-> terms[i].sigma] = <<{}, {0}, {0, 1}, {1}>>

\* C10 witness: the complete decomposition for three controls, whose last term
\* carries a Z on the last control alone.
C10_Witness ==
    /\ k = 3
    /\ AllEmitted
    /\ terms[2].sigma = {0}
    /\ terms[8].sigma = {2}

\* The positions of the rotations of the compiled circuit.
Rotations == {i \in 1..Len(circuit) : circuit[i].gate = "Rz"}

C12_DecomposesOnlyWhenNeeded ==
    stage = "done" /\ backend # "none" =>
        /\ Supported(backend, gate) => compiled = <<gate>>
        /\ ~Supported(backend, gate) => compiled # <<gate>>
        /\ \A i \in 1..Len(compiled) : Supported(backend, compiled[i])

\* All controls of U are included in the full generator.
ControlsIncluded == Gc.included = ncontrol /\ G # <<>>

\* C13: make_generator(include_controls=True) is ((I - Z)/2)^k G expanded:
\* for each Pauli term of G one term per subset of the k controls, carrying Z
\* on that subset, of magnitude 1/2^k of the term's coefficient and of sign
\* (-1)^(number of control Z); +0.5 X(1) - 0.5 Z(0)X(1) for one control and
\* G = X(1); the plain generator for k = 0.
C13_FullGenerator ==
    ControlsIncluded =>
        /\ Gc.den = 2 ^ ncontrol
        /\ DOMAIN Gc.coeff =
               {PauliString(zs, p) : zs \in SUBSET (0..(ncontrol - 1)), p \in DOMAIN G}
        /\ \A t \in DOMAIN Gc.coeff :
               Gc.coeff[t] = (IF Cardinality(t.zs) % 2 = 0 THEN 1 ELSE -1) * G[t.p]
        /\ (ncontrol = 1 /\ G = [p \in {"X"} |-> 1]) =>
               /\ Gc.den = 2
               /\ Gc.coeff = [t \in {PauliString({}, "X"), PauliString({0}, "X")} |->
                                  IF t.zs = {} THEN 1 ELSE -1]
        /\ ncontrol = 0 =>
               /\ Gc.den = 1
               /\ \A p \in DOMAIN G : Gc.coeff[PauliString({}, p)] = G[p]

\* C13 witness: the full generator of a gate with two controls and the
\* generator Z - 1: eight terms, the one with Z on both controls positive.
C13_Witness ==
    /\ ControlsIncluded
    /\ ncontrol = 2
    /\ G = [p \in {"Z", "I"} |-> IF p = "Z" THEN 1 ELSE -1]
    /\ Cardinality(DOMAIN Gc.coeff) = 8
    /\ Gc.coeff[PauliString({0, 1}, "I")] = -1
    /\ Gc.coeff[PauliString({0}, "Z")] = -1

\* The key of the pair of the terms at positions i and j of H.binary_terms.
PairKey(i, j) == <<binary_tuple(binary_terms[i]), binary_tuple(binary_terms[j])>>

\* Every entry of the returned dictionary belongs to a commuting pair of terms.
OnlyCommutingPairs ==
    \A key \in DOMAIN cov_dict :
        \E i, j \in 1..Len(binary_terms) :
            /\ key = PairKey(i, j)
            /\ commute(binary_terms[i], binary_terms[j])

\* C15 as stated: the returned dictionary holds Cov(P1, P2) under the key
\* (P1.binary_tuple(), P2.binary_tuple()) for every pair of commuting terms
\* P1, P2 of H.binary_terms, and no entry for a non-commuting pair.
C15_EveryCommutingPair ==
    returned =>
        /\ \A i, j \in 1..Len(binary_terms) :
               commute(binary_terms[i], binary_terms[j]) =>
                   /\ PairKey(i, j) \in DOMAIN cov_dict
                   /\ cov_dict[PairKey(i, j)] = Cov(binary_terms[i], binary_terms[j])
        /\ OnlyCommutingPairs

\* C15, amended: the returned dictionary holds Cov(P1, P2) under the key
\* (P1.binary_tuple(), P2.binary_tuple()) for every pair of commuting terms
\* where P1 is P2 or comes before P2 in H.binary_terms; it holds no entry
\* for a non-commuting pair, and none with the later term first.
C15_CommutingPairsInOrder ==
    returned =>
        /\ \A i, j \in 1..Len(binary_terms) :
               (i <= j /\ commute(binary_terms[i], binary_terms[j])) =>
                   /\ PairKey(i, j) \in DOMAIN cov_dict
                   /\ cov_dict[PairKey(i, j)] = Cov(binary_terms[i], binary_terms[j])
        /\ \A i, j \in 1..Len(binary_terms) :
               i > j => PairKey(i, j) \notin DOMAIN cov_dict
        /\ OnlyCommutingPairs

\* C15 witness: two different commuting terms; the dictionary was returned
\* with their covariance under the key in list order, and without an entry
\* for a pair that does not commute.
C15_Witness ==
    /\ returned
    /\ Len(binary_terms) = 2
    /\ commute(binary_terms[1], binary_terms[2])
    /\ PairKey(1, 2) \in DOMAIN cov_dict
    /\ Cardinality(DOMAIN cov_dict) = 3

\* C16: in every notebook, run once top to bottom from an empty namespace,
\* every name a statement reads is already bound: no cell fails on an
\* unbound name.
C16_EveryNameBound == failure.exc = "none"

\* The lists of a tensor reference (none for a number).
ListsOf(ref) ==
    IF ref.kind = "tequilaTensor" THEN {ref.shape, ref.objective_list} ELSE {}

\* C17: the tensor returned by A + B, A * s, s * A or A * B shares no list
\* with its operands: whatever is changed in place in the result's shape or
\* objective_list, the shape and objective_list of A and of B stay as they
\* were.
C17_ResultSharesNoList ==
    refs.C.kind = "tequilaTensor" =>
        /\ ListsOf(refs.C) \cap (ListsOf(refs.A) \cup ListsOf(refs.B)) = {}
        /\ \A id \in ListsOf(refs.A) \cup ListsOf(refs.B) : heap[id] = before[id]

====
